---- MODULE Spec2Model ----
(***************************************************************************)
(* Model of rasp.tor_engine.TorEngine: the control-channel life cycle      *)
(* (open_controller / close_controller / refresh_ip), the scoped wrapper   *)
(* refreshable_ip and get_page_source with its refresh_ip flag.            *)
(*                                                                         *)
(* The control library (stem) and the HTTP transport are collaborators:    *)
(* connect() either yields an authenticated controller, raises, or returns *)
(* None; a controller whose socket is alive accepts signal() and close();  *)
(* a closed controller rejects signal() and ignores a repeated close().    *)
(***************************************************************************)
EXTENDS Integers, Sequences, FiniteSets, TLC

\* Bound on the number of control connections one engine establishes.
MaxConn == 2

\* Bound on the number of curried functions taken from one engine.
MaxCurry == 2

\* self.controller: the attribute does not exist / holds None / holds handle i
ABSENT == -1
NONE == 0
Handles == 1..MaxConn

Urls == {"", "http://a"}
ConnectOutcomes == {"ok", "raise", "none"}
TransportOutcomes == {"ok", "notfound", "error"}

\* Exceptions that can reach the caller.
Errors ==
  {"EngineError", "AttributeError", "SocketClosed", "AuthenticationFailure",
   "ValueError", "HTTPError", "TypeError"}

\* Python values of the constructor parameters: None, an int, a str or a
\* header dict; v is the value's text, as str.format prints it, and for a
\* header dict its Content-Type entry ("" for the empty dict).
None == [t |-> "none", v |-> ""]
PyInt(v) == [t |-> "int", v |-> v]
PyStr(v) == [t |-> "str", v |-> v]

\* bool(x): None, 0 and '' are false
Truthy(x) ==
  ~(x.t = "none" \/ (x.t = "int" /\ x.v = "0") \/ (x.t = "str" /\ x.v = "")
      \/ (x.t = "dict" /\ x.v = ""))

PyDict(v) == [t |-> "dict", v |-> v]

NoHeaders == PyDict("")

ContentTypes == {"text/json", "text/xml"}

\* headers a caller may pass to one call
PerCallHeaders == {NoHeaders, PyDict("text/html")}

\* DefaultEngine: base headers merged with the per-call headers, per-call
\* values overriding
merge(base, percall) == IF percall.v # "" THEN percall ELSE base

\* curry() that closes over the live header mapping
curry_alias(h) == [frozen |-> h, live |-> TRUE]

\* DefaultEngine.curry: a fetch function holding a copy of the headers
curry(h) == [frozen |-> h, live |-> FALSE]

\* the base headers a curried function uses when called
curried_headers(f, liveHeaders) == IF f.live THEN liveHeaders ELSE f.frozen

\* x or y
Or(x, y) == IF Truthy(x) THEN x ELSE y

\* no engine object (a call that raised returns none)
NoEngine == [exists |-> FALSE]

\* what getpass.getpass returns when the prompt is shown
Typed == PyStr("typed")

\* session.proxies.update({'http': proxy_uri, 'https': proxy_uri}) that
\* forgets the https entry
session_proxies_http_only(address, port) ==
  LET proxy_uri == "socks5://" \o address.v \o ":" \o port.v IN
  [http |-> proxy_uri, https |-> ""]

session_proxies(address, port) ==
  LET proxy_uri == "socks5://" \o address.v \o ":" \o port.v IN
  [http |-> proxy_uri, https |-> proxy_uri]

\* TorEngine.__init__ with its arguments bound: a holds headers, address,
\* port, control_port and control_password; env holds the four RASP_TOR_*
\* variables, None when unset.
TorEngine_init(a, env) ==
  LET address == Or(a.address, Or(env.address, PyStr("127.0.0.1")))
      port == Or(a.port, Or(env.port, PyInt("9050")))
      control_password ==
        Or(a.control_password, Or(env.control_password, Typed))
      control_port == Or(a.control_port, Or(env.control_port, PyInt("9051")))
  IN [exists |-> TRUE,
      headers |-> a.headers,
      address |-> address,
      port |-> port,
      control_password |-> control_password,
      control_port |-> control_port,
      prompted |-> ~Truthy(a.control_password)
                     /\ ~Truthy(env.control_password),
      proxies |-> session_proxies(address, port)]

\* the call TorEngine(*args): positional arguments are bound to headers,
\* address, port, control_port, control_password, and more than five are a
\* TypeError.
TorEngine_call(args, env) ==
  IF Len(args) > 5
    THEN [result |-> "TypeError", engine |-> NoEngine]
  ELSE LET arg(i) == IF i <= Len(args) THEN args[i] ELSE None IN
       [result |-> "ok",
        engine |-> TorEngine_init(
          [headers |-> arg(1), address |-> arg(2), port |-> arg(3),
           control_port |-> arg(4), control_password |-> arg(5)], env)]

\* TorEngine.__copy__; hasData tells whether the engine has a data attribute
\* (none is set in TorEngine.__init__).
copy(e, hasData, env) ==
  IF ~hasData
    THEN [result |-> "AttributeError", engine |-> NoEngine]
  ELSE TorEngine_call(
         <<PyStr("data"), e.headers, e.address, e.port, e.control_port,
           e.control_password>>, env)

VARIABLES
  controller,  \* self.controller
  alive,       \* control connections of this engine whose socket is open
  nconn,       \* control connections established so far
  inBlock,     \* TRUE inside the body of `with engine.refreshable_ip():`
  last,        \* the last call: operation, arguments, channel state before,
               \* result and the I/O it performed
  ctor,        \* the constructor call: its arguments and the environment
  engine,      \* the fields __init__ set: address, port, control_port,
               \* control_password, headers, session proxies
  dup,         \* the engine made by the last copy, NoEngine if none
  curried,     \* the functions obtained from curry(), in order
  sent         \* the last request of a curried function: which function,
               \* its per-call headers and the headers sent

vars ==
  <<controller, alive, nconn, inBlock, last, ctor, engine, dup, curried, sent>>

Self == [controller |-> controller, alive |-> alive, nconn |-> nconn]

\* OPEN: the handle is a controller with a live connection. CLOSED: the handle
\* is a controller that was closed. ABSENT: no attribute. NONE: handle is None.
ChannelState(s) ==
  IF s.controller = ABSENT THEN "ABSENT"
  ELSE IF s.controller = NONE THEN "NONE"
  ELSE IF s.controller \in s.alive THEN "OPEN"
  ELSE "CLOSED"

Range(q) == {q[i] : i \in 1..Len(q)}

Out(s, result, events) ==
  [controller |-> s.controller, alive |-> s.alive, nconn |-> s.nconn,
   result |-> result, events |-> events]

\* stem.connection.connect as called by open_controller
connect(s, outcome) ==
  IF outcome = "ok"
    THEN [handle |-> s.nconn + 1, raised |-> FALSE]
  ELSE IF outcome = "none"
    THEN [handle |-> NONE, raised |-> FALSE]
  ELSE [handle |-> ABSENT, raised |-> TRUE]

open_controller(s, outcome) ==
  LET c == connect(s, outcome) IN
  IF c.raised
    THEN Out(s, "AuthenticationFailure", <<"connect_failed">>)
  ELSE IF c.handle = NONE
    THEN [Out(s, "ok", <<"connect_failed">>) EXCEPT !.controller = NONE]
  ELSE [controller |-> c.handle, alive |-> s.alive \cup {c.handle},
        nconn |-> c.handle, result |-> "ok", events |-> <<"connect">>]

close_controller(s) ==
  IF s.controller \in {ABSENT, NONE}
    THEN Out(s, "AttributeError", <<>>)
  ELSE IF s.controller \in s.alive
    THEN [Out(s, "ok", <<"close">>) EXCEPT !.alive = s.alive \ {s.controller}]
  ELSE Out(s, "ok", <<>>)

\* refresh_ip that drops the control connection after signalling
refresh_ip_closing(s) ==
  IF s.controller = ABSENT
    THEN Out(s, "EngineError", <<>>)
  ELSE IF s.controller = NONE
    THEN Out(s, "AttributeError", <<>>)
  ELSE IF s.controller \in s.alive
    THEN [Out(s, "ok", <<"NEWNYM">>) EXCEPT !.alive = s.alive \ {s.controller}]
  ELSE Out(s, "SocketClosed", <<"signal_rejected">>)

refresh_ip(s) ==
  IF s.controller = ABSENT
    THEN Out(s, "EngineError", <<>>)
  ELSE IF s.controller = NONE
    THEN Out(s, "AttributeError", <<>>)
  ELSE IF s.controller \in s.alive
    THEN Out(s, "ok", <<"NEWNYM">>)
  ELSE Out(s, "SocketClosed", <<"signal_rejected">>)

\* rasp.base.DefaultEngine.get_page_source
DefaultEngine_get_page_source(s, url, transport) ==
  IF url = ""
    THEN Out(s, "ValueError", <<>>)
  ELSE IF transport = "ok"
    THEN Out(s, "Webpage", <<"GET">>)
  ELSE IF transport = "notfound"
    THEN Out(s, "None", <<"GET">>)
  ELSE Out(s, "HTTPError", <<"GET">>)

\* get_page_source that swallows a failed refresh and fetches anyway
get_page_source_swallow(s, url, refresh, transport) ==
  IF refresh
    THEN LET r == refresh_ip(s)
             b == DefaultEngine_get_page_source(r, url, transport) IN
         [b EXCEPT !.events = r.events \o b.events]
  ELSE DefaultEngine_get_page_source(s, url, transport)

\* get_page_source that fetches first and refreshes afterwards
get_page_source_fetch_first(s, url, refresh, transport) ==
  LET b == DefaultEngine_get_page_source(s, url, transport) IN
  IF refresh /\ b.result \notin Errors
    THEN LET r == refresh_ip(b) IN
         IF r.result \in Errors
           THEN [r EXCEPT !.events = b.events \o r.events]
         ELSE [b EXCEPT !.events = b.events \o r.events]
  ELSE b

\* get_page_source that refreshes whatever the flag says
get_page_source_always_refresh(s, url, refresh, transport) ==
  LET r == refresh_ip(s) IN
  IF r.result \in Errors
    THEN r
  ELSE LET b == DefaultEngine_get_page_source(r, url, transport) IN
       [b EXCEPT !.events = r.events \o b.events]

get_page_source(s, url, refresh, transport) ==
  IF refresh
    THEN LET r == refresh_ip(s) IN
         IF r.result \in Errors
           THEN r
         ELSE LET b == DefaultEngine_get_page_source(r, url, transport) IN
              [b EXCEPT !.events = r.events \o b.events]
  ELSE DefaultEngine_get_page_source(s, url, transport)

\* refreshable_ip up to the yield; entered is FALSE when open_controller
\* raised and the finally clause has already run.
refreshable_ip_enter(s, outcome) ==
  LET o == open_controller(s, outcome) IN
  IF o.result \in Errors
    THEN LET c == close_controller(o) IN
         [controller |-> c.controller, alive |-> c.alive, nconn |-> c.nconn,
          result |-> IF c.result \in Errors THEN c.result ELSE o.result,
          events |-> o.events \o c.events, entered |-> FALSE]
  ELSE [controller |-> o.controller, alive |-> o.alive, nconn |-> o.nconn,
        result |-> o.result, events |-> o.events, entered |-> TRUE]

\* a wrapper without the finally: the close is skipped when the block raises
refreshable_ip_exit_noclose(s, exc) ==
  IF exc = "none"
    THEN LET c == close_controller(s) IN
         [c EXCEPT !.result = IF c.result \in Errors THEN c.result ELSE "ok"]
  ELSE Out(s, exc, <<>>)

\* the finally clause of refreshable_ip; exc is the exception leaving the
\* guarded block, "none" on normal completion or early return.
refreshable_ip_exit(s, exc) ==
  LET c == close_controller(s) IN
  [c EXCEPT !.result = IF c.result \in Errors THEN c.result
                       ELSE IF exc = "none" THEN "ok" ELSE exc]

Call(op, url, refresh, o) ==
  [op |-> op, pre |-> ChannelState(Self), url |-> url, refresh |-> refresh,
   result |-> o.result, events |-> o.events]

Apply(o) ==
  /\ controller' = o.controller
  /\ alive' = o.alive
  /\ nconn' = o.nconn

Args(address, port, control_port, control_password) ==
  [headers |-> NoHeaders, address |-> address, port |-> port,
   control_port |-> control_port, control_password |-> control_password]

Env(address, port, control_port, control_password) ==
  [address |-> address, port |-> port, control_port |-> control_port,
   control_password |-> control_password]

\* Constructions the control-channel behaviours start from: the one of the
\* test suite, one with every argument explicit, one configured by the
\* environment, one with falsy arguments next to a set environment.
Configs ==
  {[args |-> Args(None, None, None, PyStr("raspdefaulttorpass")),
    env |-> Env(None, None, None, None)],
   [args |-> Args(PyStr("10.0.0.1"), PyInt("8000"), PyInt("8001"),
                  PyStr("pw")),
    env |-> Env(PyStr("10.0.0.2"), PyStr("8118"), PyStr("9151"),
                PyStr("envpw"))],
   [args |-> Args(None, None, None, None),
    env |-> Env(PyStr("10.0.0.2"), PyStr("8118"), PyStr("9151"),
                PyStr("envpw"))],
   [args |-> Args(PyStr(""), PyInt("0"), PyInt("0"), PyStr("")),
    env |-> Env(None, PyStr("8118"), None, None)]}

\* Every combination of argument and environment for the four parameters.
CtorArgs ==
  {Args(a, p, c, w) :
     a \in {None, PyStr(""), PyStr("10.0.0.1")},
     p \in {None, PyInt("0"), PyInt("8000")},
     c \in {None, PyInt("0"), PyInt("8001")},
     w \in {None, PyStr(""), PyStr("pw")}}

CtorEnvs ==
  {Env(a, p, c, w) :
     a \in {None, PyStr("10.0.0.2")},
     p \in {None, PyStr("8118")},
     c \in {None, PyStr("9151")},
     w \in {None, PyStr("envpw")}}

\* the state after TorEngine(**args) under environment env
Constructed(args, env) ==
  /\ controller = ABSENT
  /\ alive = {}
  /\ nconn = 0
  /\ inBlock = FALSE
  /\ last = [op |-> "init", pre |-> "ABSENT", url |-> "", refresh |-> FALSE,
             result |-> "ok", events |-> <<>>]
  /\ ctor = [args |-> args, env |-> env]
  /\ engine = TorEngine_init(args, env)
  /\ dup = NoEngine
  /\ curried = <<>>
  /\ sent = [fn |-> 0, percall |-> NoHeaders, headers |-> NoHeaders]

Init == \E c \in Configs : Constructed(c.args, c.env)

InitCtor == \E args \in CtorArgs, env \in CtorEnvs : Constructed(args, env)

EngineFrame == UNCHANGED <<ctor, engine, dup, curried, sent>>

OpenController ==
  \E outcome \in ConnectOutcomes :
    /\ outcome = "ok" => nconn < MaxConn
    /\ LET o == open_controller(Self, outcome) IN
       /\ Apply(o)
       /\ last' = Call("open_controller", "", FALSE, o)
    /\ UNCHANGED inBlock
    /\ EngineFrame

CloseController ==
  /\ LET o == close_controller(Self) IN
     /\ Apply(o)
     /\ last' = Call("close_controller", "", FALSE, o)
  /\ UNCHANGED inBlock
  /\ EngineFrame

RefreshIp ==
  /\ LET o == refresh_ip(Self) IN
     /\ Apply(o)
     /\ last' = Call("refresh_ip", "", FALSE, o)
  /\ UNCHANGED inBlock
  /\ EngineFrame

GetPageSource ==
  \E url \in Urls, refresh \in BOOLEAN, transport \in TransportOutcomes :
    /\ LET o == get_page_source(Self, url, refresh, transport) IN
       /\ Apply(o)
       /\ last' = Call("get_page_source", url, refresh, o)
    /\ UNCHANGED inBlock
    /\ EngineFrame

RefreshableIpEnter ==
  /\ ~inBlock
  /\ \E outcome \in ConnectOutcomes :
       /\ outcome = "ok" => nconn < MaxConn
       /\ LET o == refreshable_ip_enter(Self, outcome) IN
          /\ Apply(o)
          /\ inBlock' = o.entered
          /\ last' = Call("refreshable_ip_enter", "", FALSE, o)
  /\ EngineFrame

RefreshableIpExit ==
  /\ inBlock
  /\ \E exc \in {"none"} \cup ({last.result} \cap Errors) :
       LET o == refreshable_ip_exit(Self, exc) IN
       /\ Apply(o)
       /\ inBlock' = FALSE
       /\ last' = Call("refreshable_ip_exit", "", FALSE, o)
  /\ EngineFrame

\* copy.copy(engine)
Copy ==
  \E hasData \in BOOLEAN :
    LET c == copy(engine, hasData, ctor.env) IN
    /\ dup' = c.engine
    /\ last' = [op |-> "copy", pre |-> ChannelState(Self), url |-> "",
                refresh |-> FALSE, result |-> c.result, events |-> <<>>]
    /\ UNCHANGED <<controller, alive, nconn, inBlock, ctor, engine, curried,
                   sent>>

\* engine.headers.update({'Content-Type': v})
UpdateHeaders ==
  \E v \in ContentTypes :
    /\ engine' = [engine EXCEPT !.headers = PyDict(v)]
    /\ last' = [op |-> "update_headers", pre |-> ChannelState(Self),
                url |-> "", refresh |-> FALSE, result |-> "ok",
                events |-> <<>>]
    /\ UNCHANGED <<controller, alive, nconn, inBlock, ctor, dup, curried, sent>>

\* f = engine.curry()
Curry ==
  /\ Len(curried) < MaxCurry
  /\ curried' = Append(curried, curry(engine.headers))
  /\ last' = [op |-> "curry", pre |-> ChannelState(Self), url |-> "",
              refresh |-> FALSE, result |-> "ok", events |-> <<>>]
  /\ UNCHANGED <<controller, alive, nconn, inBlock, ctor, engine, dup, sent>>

\* f(url, headers=percall) for a curried function f
CallCurried ==
  \E i \in 1..Len(curried), url \in Urls, percall \in PerCallHeaders,
     transport \in TransportOutcomes :
    LET o == DefaultEngine_get_page_source(Self, url, transport)
        h == merge(curried_headers(curried[i], engine.headers), percall)
    IN /\ Apply(o)
       /\ last' = Call("curried", url, FALSE, o)
       /\ sent' = IF "GET" \in Range(o.events)
                    THEN [fn |-> i, percall |-> percall, headers |-> h]
                  ELSE sent
       /\ UNCHANGED <<inBlock, ctor, engine, dup, curried>>

Next ==
  \/ OpenController
  \/ CloseController
  \/ RefreshIp
  \/ GetPageSource
  \/ RefreshableIpEnter
  \/ RefreshableIpExit
  \/ Copy

Spec == Init /\ [][Next]_vars

\* the header mapping and the curried functions of the base engine, which
\* share no state with the control channel
NextCurry ==
  \/ UpdateHeaders
  \/ Curry
  \/ CallCurried

SpecCurry == Init /\ [][NextCurry]_vars

\* construction over every combination of inputs, followed by copies
NextCtor == Copy

SpecCtor == InitCtor /\ [][NextCtor]_vars

TypeOK ==
  /\ controller \in {ABSENT, NONE} \cup Handles
  /\ alive \subseteq Handles
  /\ nconn \in 0..MaxConn
  /\ inBlock \in BOOLEAN
  /\ last.result \in Errors \cup {"ok", "Webpage", "None"}

NeverOpened == [controller |-> ABSENT, alive |-> {}, nconn |-> 0]

----------------------------------------------------------------------------
\* C1: refresh_ip() called while the channel is closed (never opened, or
\* opened and then closed) fails with the controller-not-active error
\* (EngineError) and makes no call on the control connection.
C1_RefreshWhileClosedNotActive ==
  (last.op = "refresh_ip" /\ last.pre \in {"ABSENT", "CLOSED"})
    => (last.result = "EngineError" /\ last.events = <<>>)

\* C2: get_page_source(url, refresh_ip=True) on a closed channel starts with a
\* connect, and a call that reaches the transport has performed exactly
\* open, new-identity signal, close, GET, leaving the channel closed.
C2_FetchRefreshCycle ==
  (last.op = "get_page_source" /\ last.refresh /\ last.url # ""
     /\ last.pre \in {"ABSENT", "CLOSED"})
    => /\ last.events # <<>>
       /\ Head(last.events) \in {"connect", "connect_failed"}
       /\ last.result \in {"Webpage", "None", "HTTPError"}
            => last.events = <<"connect", "NEWNYM", "close", "GET">>
       /\ ChannelState(Self) # "OPEN"

\* C3: after the scoped wrapper refreshable_ip has finished (its finally
\* clause ran, after the block or after a failed open), the engine's control
\* channel is not open, whatever happened inside the guarded block.
C3_WrapperLeavesClosed ==
  (last.op = "refreshable_ip_exit"
     \/ (last.op = "refreshable_ip_enter" /\ ~inBlock))
    => ChannelState(Self) # "OPEN"

\* C3 witness: the guarded block raised while the connection was live and the
\* wrapper closed it.
C3_Witness ==
  /\ last.op = "refreshable_ip_exit"
  /\ last.pre = "OPEN"
  /\ last.result \in Errors
  /\ last.events = <<"close">>
  /\ ChannelState(Self) = "CLOSED"

\* C4: get_page_source with an empty url fails with ValueError whatever the
\* refresh_ip flag and the state of the control channel.
C4_EmptyUrlInvalidArgument ==
  (last.op = "get_page_source" /\ last.url = "")
    => last.result = "ValueError"

\* C5: when get_page_source is called with refresh_ip=True and the refresh
\* fails, the call ends with the refresh's error, issues no GET and returns
\* neither a Webpage nor None.
C5_FailedRefreshAbortsFetch ==
  (last.op = "get_page_source" /\ last.refresh /\ last.pre # "OPEN")
    => /\ "GET" \notin Range(last.events)
       /\ last.result =
            (CASE last.pre = "ABSENT" -> "EngineError"
               [] last.pre = "NONE" -> "AttributeError"
               [] last.pre = "CLOSED" -> "SocketClosed")

\* C5 witness: a fetch of a valid url whose refresh was rejected by the
\* closed control connection.
C5_Witness ==
  /\ last.op = "get_page_source"
  /\ last.refresh
  /\ last.url # ""
  /\ last.pre = "CLOSED"
  /\ last.result = "SocketClosed"
  /\ last.events = <<"signal_rejected">>

\* C6: the controller handle is held exactly while the channel is open, so
\* after close_controller the handle is gone.
C6_HandleIffOpen ==
  (controller \in Handles) <=> (ChannelState(Self) = "OPEN")

\* C7: when the connect in open_controller fails, open_controller raises the
\* authentication error, no handle is stored and a following refresh_ip()
\* fails with the controller-not-active error (EngineError).
C7_AuthFailureLeavesClosed ==
  (last.op = "open_controller" /\ "connect_failed" \in Range(last.events))
    => /\ last.result = "AuthenticationFailure"
       /\ controller = ABSENT
       /\ refresh_ip(Self).result = "EngineError"

\* C8: refresh_ip() called while the channel is open succeeds, sends exactly
\* one new-identity signal and neither closes nor replaces the controller.
C8_RefreshWhileOpen ==
  [][(last'.op = "refresh_ip" /\ ChannelState(Self) = "OPEN")
       => /\ last'.result = "ok"
          /\ last'.events = <<"NEWNYM">>
          /\ controller' = controller
          /\ alive' = alive]_vars

\* C8 witness: a refresh sent on the open channel of the second connection
\* the engine made, which is still open afterwards.
C8_Witness ==
  /\ last.op = "refresh_ip"
  /\ last.pre = "OPEN"
  /\ last.result = "ok"
  /\ controller = 2
  /\ ChannelState(Self) = "OPEN"

\* C9: close_controller() on a closed channel behaves the same way whether the
\* channel was never opened or was opened and closed before (the same outcome
\* as on a never-opened engine), and leaves the channel closed.
C9_CloseWhileClosedConsistent ==
  (last.op = "close_controller" /\ last.pre \in {"ABSENT", "CLOSED"})
    => /\ last.result = close_controller(NeverOpened).result
       /\ ChannelState(Self) # "OPEN"

\* C10: open_controller() on an open channel is rejected, and the engine
\* never has more than one live control connection.
C10_NoNestedOpen ==
  /\ (last.op = "open_controller" /\ last.pre = "OPEN")
       => last.result \in Errors
  /\ Cardinality(alive) <= 1

\* C11: copying the engine succeeds and the copy has the original's headers,
\* proxy address, proxy port, control port and control secret, each in its
\* own field.
C11_CopyPreserves ==
  last.op = "copy"
    => /\ last.result = "ok"
       /\ dup.exists
       /\ dup.headers = engine.headers
       /\ dup.address = engine.address
       /\ dup.port = engine.port
       /\ dup.control_port = engine.control_port
       /\ dup.control_password = engine.control_password

\* strict priority: the argument when one is supplied, else the environment
\* variable when set, else the default
Resolve(arg, envv, default) ==
  IF arg.t # "none" THEN arg ELSE IF envv.t # "none" THEN envv ELSE default

\* C12: each of address, port, control port and control secret is the
\* explicit argument whenever one is supplied, else the environment variable,
\* else the default (for the secret: the prompt), and the prompt is shown only
\* when neither an explicit secret nor the environment variable is given.
C12_ResolutionPriority ==
  /\ engine.address
       = Resolve(ctor.args.address, ctor.env.address, PyStr("127.0.0.1"))
  /\ engine.port = Resolve(ctor.args.port, ctor.env.port, PyInt("9050"))
  /\ engine.control_port
       = Resolve(ctor.args.control_port, ctor.env.control_port, PyInt("9051"))
  /\ engine.control_password
       = Resolve(ctor.args.control_password, ctor.env.control_password, Typed)
  /\ engine.prompted
       <=> (ctor.args.control_password.t = "none"
              /\ ctor.env.control_password.t = "none")

\* C13: a call of a curried function sends the headers the engine had when
\* that function was curried (merged with the call's own headers), whatever
\* the engine's headers are now and however many curried functions exist.
C13_CurrySnapshot ==
  (last.op = "curried" /\ sent.fn > 0)
    => sent.headers = merge(curried[sent.fn].frozen, sent.percall)

\* C13 witness: curried with text/json, engine changed to text/xml, a second
\* function curried, and the first one's call sent text/json.
C13_Witness ==
  /\ last.op = "curried"
  /\ Len(curried) = 2
  /\ sent.fn = 1
  /\ curried[1].frozen.v = "text/json"
  /\ curried[2].frozen.v = "text/xml"
  /\ engine.headers.v = "text/xml"
  /\ sent.percall = NoHeaders
  /\ sent.headers.v = "text/json"

\* C14: when open_controller fails inside the scoped wrapper, close_controller
\* is not invoked and the caller gets the open failure's error.
C14_FailedOpenNotClosed ==
  (last.op = "refreshable_ip_enter" /\ ~inBlock)
    => /\ last.result = "AuthenticationFailure"
       /\ last.events = <<"connect_failed">>

\* C15: a successful get_page_source with refresh_ip=True sends exactly one
\* new-identity signal and then issues exactly one GET.
C15_OneSignalThenOneGet ==
  (last.op = "get_page_source" /\ last.refresh
     /\ last.result \in {"Webpage", "None"})
    => last.events = <<"NEWNYM", "GET">>

\* C15 witness: a fetch with refresh on an open channel returned a Webpage.
C15_Witness ==
  /\ last.op = "get_page_source"
  /\ last.refresh
  /\ last.pre = "OPEN"
  /\ last.result = "Webpage"
  /\ Len(last.events) = 2

\* C16: get_page_source with refresh_ip=False opens no controller, sends no
\* signal, closes nothing and leaves the handle and its connection as they
\* were, whatever the outcome of the fetch.
C16_NoRefreshLeavesChannel ==
  [][(last'.op = "get_page_source" /\ ~last'.refresh)
       => /\ controller' = controller
          /\ alive' = alive
          /\ nconn' = nconn
          /\ Range(last'.events) \subseteq {"GET"}]_vars

\* C16 witness: a fetch without refresh failed in the transport while the
\* channel was open, and the channel is still open.
C16_Witness ==
  /\ last.op = "get_page_source"
  /\ ~last.refresh
  /\ last.pre = "OPEN"
  /\ last.result = "HTTPError"
  /\ ChannelState(Self) = "OPEN"

\* C17: in every reachable state the session's http and https proxies are
\* both socks5://<address>:<port> of the resolved address and port.
C17_ProxiesFixed ==
  /\ engine.proxies.http
       = "socks5://" \o engine.address.v \o ":" \o engine.port.v
  /\ engine.proxies.https = engine.proxies.http

\* C17 witness: an engine configured from the environment has fetched a page
\* and opened its controller, and still routes through the same proxy.
C17_Witness ==
  /\ last.op = "get_page_source"
  /\ last.result = "Webpage"
  /\ controller \in Handles
  /\ engine.proxies.https = "socks5://10.0.0.2:8118"

\* C18: after construction the proxy port and the control port are integers,
\* whichever source they were resolved from.
C18_PortsAreIntegers ==
  /\ engine.port.t = "int"
  /\ engine.control_port.t = "int"

====
